---- MODULE Spec2Model ----
(***************************************************************************)
(* State-machine model of load_balancer.py: the policy classes (N2One,     *)
(* RoundRobin, LeastConnections), SocketMapper (add, delete, get_sock),    *)
(* the accept and read handlers and the dispatch loop of main.             *)
(*                                                                         *)
(* Sockets are natural numbers (object identities); socket 0 is the        *)
(* listening socket.  Python dicts are sequences of <<key, value>> pairs   *)
(* in insertion order.  An operation of the program is an operator from a  *)
(* world record (map, sel, closed, policy, updates) to a record holding    *)
(* the new world and the exception that left the operation ("none" when    *)
(* it returned normally).                                                  *)
(***************************************************************************)
EXTENDS Integers, Sequences, FiniteSets, TLC

\* ------------------------------------------------------------------ bounds
NumServers == 2     \* server identities are 1..NumServers
MaxPool    == 2     \* longest configured pool (the -s list)
MaxAccepts == 2     \* client connections accepted / add calls made
MaxChunk   == 1     \* non-empty chunks are 1..MaxChunk
MaxCalls   == 4     \* calls made by the policy and mapper harnesses
MaxTime    == 2     \* latest clock reading

ServerIds == 1..NumServers
Chunks    == 1..MaxChunk
Listener  == 0
None      == -1
Empty     == 0      \* the zero-byte result of recv
Partial   == -2     \* a proper prefix of the chunk handed to send

\* every non-empty pool of at most MaxPool servers (repetitions allowed)
Pools == UNION { [1..n -> ServerIds] : n \in 1..MaxPool }

\* ------------------------------------------------------------- Python dict
DictHas(d, k) == \E i \in 1..Len(d) : d[i][1] = k

DictIdx(d, k) == CHOOSE i \in 1..Len(d) : d[i][1] = k

DictGet(d, k) == d[DictIdx(d, k)][2]

DictSet(d, k, v) ==
    IF DictHas(d, k)
    THEN [d EXCEPT ![DictIdx(d, k)] = <<k, v>>]
    ELSE Append(d, <<k, v>>)

DictPop(d, k) ==
    LET i == DictIdx(d, k)
    IN  SubSeq(d, 1, i - 1) \o SubSeq(d, i + 1, Len(d))

\* {sv : 0 for sv in servers}: keys in order of first occurrence
RECURSIVE DictFromKeys(_, _, _)
DictFromKeys(keys, v, i) ==
    IF i = 0 THEN <<>>
    ELSE DictSet(DictFromKeys(keys, v, i - 1), keys[i], v)

\* ---------------------------------------------------------------- policies
N2One(servers) ==
    [kind |-> "N2One", servers |-> servers, counter |-> 0, connections |-> <<>>]

\* RoundRobin.__init__ starting the counter at 0 instead of -1
RoundRobin_from_zero(servers) ==
    [kind |-> "RoundRobin", servers |-> servers, counter |-> 0,
     connections |-> <<>>]

RoundRobin(servers) ==
    [kind |-> "RoundRobin", servers |-> servers, counter |-> -1,
     connections |-> <<>>]

LeastConnections(servers) ==
    [kind |-> "LeastConnections", servers |-> servers, counter |-> 0,
     connections |-> DictFromKeys(servers, 0, Len(servers))]

\* a fixed target taken from the other end of the pool
N2One_select_server_last(p) ==
    [policy |-> p, server |-> p.servers[Len(p.servers)]]

\* N2One.select_server
N2One_select_server(p) == [policy |-> p, server |-> p.servers[1]]

\* RoundRobin.select_server losing its increment
RoundRobin_select_server_stuck(p) ==
    [policy |-> p, server |-> p.servers[((p.counter + 1) % Len(p.servers)) + 1]]

\* RoundRobin.select_server: increment, then index modulo the pool length
RoundRobin_select_server(p) ==
    LET c == p.counter + 1
    IN  [policy |-> [p EXCEPT !.counter = c],
         server |-> p.servers[(c % Len(p.servers)) + 1]]

\* min keeping the last key of the least value instead of the first
RECURSIVE MinKey_last(_, _, _)
MinKey_last(d, i, best) ==
    IF i > Len(d) THEN d[best][1]
    ELSE MinKey_last(d, i + 1, IF d[i][2] <= d[best][2] THEN i ELSE best)

\* min(d, key=d.get): the first key, in iteration order, of the least value
RECURSIVE MinKey(_, _, _)
MinKey(d, i, best) ==
    IF i > Len(d) THEN d[best][1]
    ELSE MinKey(d, i + 1, IF d[i][2] < d[best][2] THEN i ELSE best)

\* LeastConnections.select_server
LeastConnections_select_server(p) ==
    [policy |-> p, server |-> MinKey(p.connections, 2, 1)]

\* policy.select_server()
select_server(p) ==
    CASE p.kind = "N2One"            -> N2One_select_server(p)
      [] p.kind = "RoundRobin"       -> RoundRobin_select_server(p)
      [] p.kind = "LeastConnections" -> LeastConnections_select_server(p)

\* LeastConnections.update: connections[server] += 1 or -= 1
LeastConnections_update(p, add, server) ==
    IF ~DictHas(p.connections, server)
    THEN [policy |-> p, exc |-> "KeyError"]
    ELSE [policy |-> [p EXCEPT !.connections =
                        DictSet(@, server,
                                DictGet(@, server) + (IF add THEN 1 ELSE -1))],
          exc |-> "none"]

\* policy.update(add, server, client_sock)
update(p, add, server, client) ==
    CASE p.kind = "N2One"            -> [policy |-> p, exc |-> "none"]
      [] p.kind = "RoundRobin"       -> [policy |-> p, exc |-> "none"]
      [] p.kind = "LeastConnections" -> LeastConnections_update(p, add, server)

\* ------------------------------------------------------ LeastResponseTime
\* averages are exact fractions <<numerator, denominator>>; 0 is <<0, 1>>
RatLess(a, b) == a[1] * b[2] < b[1] * a[2]

LeastResponseTime(servers) ==
    [kind |-> "LeastResponseTime", servers |-> servers, counter |-> 0,
     connections |-> <<>>,
     response_times |-> DictFromKeys(servers, <<0, 1>>, Len(servers)),
     temp |-> <<>>]

\* min(self.response_times, key=self.response_times.get)
RECURSIVE MinKeyRat(_, _, _)
MinKeyRat(d, i, best) ==
    IF i > Len(d) THEN d[best][1]
    ELSE MinKeyRat(d, i + 1, IF RatLess(d[i][2], d[best][2]) THEN i ELSE best)

\* LeastResponseTime.select_server
LeastResponseTime_select_server(p) ==
    [policy |-> p, server |-> MinKeyRat(p.response_times, 2, 1)]

\* lines 95-104: aux[server] collects the stored times of the entries of
\* temp whose first field is truthy; here as <<sum, count>> per server
RECURSIVE Aux(_, _)
Aux(temp, i) ==
    IF i = 0 THEN <<>>
    ELSE LET aux    == Aux(temp, i - 1)
             server == temp[i][1][1]
             v      == temp[i][2]
         IN  IF v[1] = 0 THEN aux
             ELSE IF ~DictHas(aux, server)
             THEN DictSet(aux, server, <<v[2], 1>>)
             ELSE DictSet(aux, server, <<DictGet(aux, server)[1] + v[2],
                                         DictGet(aux, server)[2] + 1>>)

\* lines 106-107: response_times[server] = sum(lst) / len(lst)
RECURSIVE StoreAverages(_, _, _)
StoreAverages(rt, aux, i) ==
    IF i = 0 THEN rt
    ELSE DictSet(StoreAverages(rt, aux, i - 1), aux[i][1], aux[i][2])

\* LeastResponseTime.update at time t.  On add = false, initial_time is the
\* list [0, start] stored by the add, so time.time() - initial_time raises
\* TypeError before anything is stored.
LeastResponseTime_update(p, add, server, client, t) ==
    IF add
    THEN LET temp == DictSet(p.temp, <<server, client>>, <<0, t>>)
             aux  == Aux(temp, Len(temp))
         IN  [policy |-> [p EXCEPT !.temp = temp,
                                   !.response_times =
                                      StoreAverages(@, aux, Len(aux))],
              exc |-> "none"]
    ELSE IF ~DictHas(p.temp, <<server, client>>)
    THEN [policy |-> p, exc |-> "KeyError"]
    ELSE [policy |-> p, exc |-> "TypeError"]

\* ------------------------------------------------------------ the selector
\* sel maps each registered socket to its callback
Register(s, sock, cb) ==
    [x \in (DOMAIN s) \cup {sock} |-> IF x = sock THEN cb ELSE s[x]]

Unregister(s, sock) == [x \in (DOMAIN s) \ {sock} |-> s[x]]

\* ------------------------------------------------------------ SocketMapper
\* get_sock looking sock up among the clients only (as get_upstream_sock does)
RECURSIVE get_sock_from_client_only(_, _, _)
get_sock_from_client_only(m, sock, i) ==
    IF i > Len(m) THEN None
    ELSE IF m[i][1] = sock THEN m[i][2]
    ELSE get_sock_from_client_only(m, sock, i + 1)

\* SocketMapper.get_sock: the first pair holding sock yields its other side
RECURSIVE get_sock_from(_, _, _)
get_sock_from(m, sock, i) ==
    IF i > Len(m) THEN None
    ELSE IF m[i][2] = sock THEN m[i][1]
    ELSE IF m[i][1] = sock THEN m[i][2]
    ELSE get_sock_from(m, sock, i + 1)

get_sock(m, sock) == get_sock_from(m, sock, 1)

\* SocketMapper.add(client_sock, upstream_server); upstream_sock is the
\* identity of the socket object line 134 creates, connect_ok the outcome of
\* the connect of line 135
add(w, client_sock, upstream_server, upstream_sock, connect_ok) ==
    IF client_sock \in w.closed
    THEN [world |-> w, exc |-> "OSError"]
    ELSE IF client_sock \in DOMAIN w.sel
    THEN [world |-> w, exc |-> "KeyError"]
    ELSE
      LET w1 == [w EXCEPT !.sel = Register(@, client_sock, "read")]
      IN  IF ~connect_ok
          THEN [world |-> w1, exc |-> "ConnectionRefusedError"]
          ELSE
            LET w2 == [w1 EXCEPT !.sel = Register(@, upstream_sock, "read"),
                                 !.map = DictSet(@, client_sock, upstream_sock)]
                u  == update(w2.policy, TRUE, upstream_server, client_sock)
                w3 == [w2 EXCEPT !.policy = u.policy,
                                 !.updates = Append(@, <<1, upstream_server,
                                                         client_sock>>)]
            IN  [world |-> w3, exc |-> u.exc]

\* delete unregistering sock before it pops the pairing
delete_unregister_first(w, sock) ==
    IF sock \notin DOMAIN w.sel
    THEN [world |-> w, exc |-> "none"]
    ELSE
      LET w1 == [w EXCEPT !.sel = Unregister(@, sock)]
      IN  IF ~DictHas(w1.map, sock)
          THEN [world |-> w1, exc |-> "none"]
          ELSE [world |-> [w1 EXCEPT !.map = DictPop(@, sock)],
                exc |-> "AttributeError"]

\* a delete whose line 146 would fail quietly: the client side is unpaired
\* and unregistered, the upstream side stays registered
delete_quiet(w, sock) ==
    IF ~DictHas(w.map, sock)
    THEN [world |-> w, exc |-> "none"]
    ELSE
      LET w1 == [w EXCEPT !.map = DictPop(@, sock)]
      IN  IF sock \notin DOMAIN w1.sel
          THEN [world |-> w1, exc |-> "none"]
          ELSE [world |-> [w1 EXCEPT !.sel = Unregister(@, sock)],
                exc |-> "none"]

\* SocketMapper.delete(sock).  KeyError (map.pop or sel.unregister of an
\* unknown socket) is swallowed by the except clause; self.connections is
\* an attribute SocketMapper never sets, so line 146 raises AttributeError,
\* which the except clause does not catch; lines 147-148 are never reached.
delete(w, sock) ==
    IF ~DictHas(w.map, sock)
    THEN [world |-> w, exc |-> "none"]
    ELSE
      LET w1 == [w EXCEPT !.map = DictPop(@, sock)]
      IN  IF sock \notin DOMAIN w1.sel
          THEN [world |-> w1, exc |-> "none"]
          ELSE [world |-> [w1 EXCEPT !.sel = Unregister(@, sock)],
                exc |-> "AttributeError"]

\* ---------------------------------------------------------------- handlers
\* accept(sock, mask): client is the socket sock.accept() returns
accept(w, client, upstream_sock, connect_ok) ==
    LET s == select_server(w.policy)
        r == add([w EXCEPT !.policy = s.policy], client, s.server,
                 upstream_sock, connect_ok)
    IN  [world |-> r.world, exc |-> r.exc, server |-> s.server]

\* read(conn, mask): data is what conn.recv returned, send the outcome of the
\* send on the paired socket, which is non-blocking (lines 132, 136): "all"
\* of data is taken, or a proper prefix of it ("part": send returns a smaller
\* count, which line 178 drops), or send raises ("raise").  to is the socket
\* send was called on, sent what that socket took.
read(w, conn, data, send) ==
    IF data = Empty
    THEN LET r == delete(w, conn)
         IN  [world |-> r.world, exc |-> r.exc, to |-> None, sent |-> None]
    ELSE LET peer == get_sock(w.map, conn)
         IN  IF peer = None
             THEN [world |-> w, exc |-> "AttributeError", to |-> None,
                   sent |-> None]
             ELSE IF send = "raise"
             THEN [world |-> w, exc |-> "OSError", to |-> peer, sent |-> None]
             ELSE IF send = "part"
             THEN [world |-> w, exc |-> "none", to |-> peer, sent |-> Partial]
             ELSE [world |-> w, exc |-> "none", to |-> peer, sent |-> data]

\* ------------------------------------------------------------------- state
VARIABLES
    map,        \* SocketMapper.map: dict client socket -> upstream socket
    sel,        \* the selector: registered socket -> callback
    closed,     \* sockets on which close() was called
    policy,     \* the policy object
    updates,    \* policy.update calls SocketMapper made: <<add, server, client>>
    done,       \* the shutdown flag
    pc,         \* "loop": at the while test; "dispatch": in the for loop;
                \* "exited": main returned; "harness": driven by direct calls
    events,     \* keys of the batch not yet dispatched: <<fileobj, data>>
    err,        \* the exception main's except clause caught ("none" if none)
    nextSock,   \* identity of the next socket object created
    eof,        \* sockets whose peer closed: recv returns zero bytes
    sessions,   \* every pairing add recorded: [client, upstream, server]
    selections, \* the servers select_server returned, in call order
    calls,      \* number of calls the harness made
    now,        \* what time.time() returns
    last        \* the latest handler invocation or harness call

vars == <<map, sel, closed, policy, updates, done, pc, events, err, nextSock,
          eof, sessions, selections, calls, now, last>>

World == [map |-> map, sel |-> sel, closed |-> closed, policy |-> policy,
          updates |-> updates]

SetWorld(w) ==
    /\ map' = w.map
    /\ sel' = w.sel
    /\ closed' = w.closed
    /\ policy' = w.policy
    /\ updates' = w.updates

NoCall == [op |-> "none", sock |-> None, arg |-> None, exc |-> "none",
           to |-> None, side |-> "none", peer |-> None, sent |-> None]

\* which side of a recorded pair sock is, and its peer (None if unpaired)
SideOf(m, sock) ==
    IF DictHas(m, sock) THEN "client"
    ELSE IF get_sock(m, sock) # None THEN "upstream"
    ELSE "none"

\* main, lines 181-197, with the policy object p in place of line 189's
InitWith(p, start) ==
    /\ policy = p
    /\ map = <<>>
    /\ sel = [x \in {Listener} |-> "accept"]
    /\ closed = {}
    /\ updates = <<>>
    /\ done = FALSE
    /\ pc = start
    /\ events = {}
    /\ err = "none"
    /\ nextSock = 1
    /\ eof = {}
    /\ sessions = <<>>
    /\ selections = <<>>
    /\ calls = 0
    /\ now = 0
    /\ last = NoCall

\* main as written: policy = N2One(servers)
Init == \E servers \in Pools : InitWith(N2One(servers), "loop")

\* ------------------------------------------------------------ dispatch loop
\* graceful_shutdown: the signal handler sets done
Signal ==
    /\ pc \in {"loop", "dispatch"}
    /\ ~done
    /\ done' = TRUE
    /\ UNCHANGED now
    /\ UNCHANGED <<map, sel, closed, policy, updates, pc, events, err,
                   nextSock, eof, sessions, selections, calls, last>>

\* sockets select can report: the listening socket while a client may still
\* connect, and every registered session socket (data or end of stream)
Ready ==
    { s \in DOMAIN sel : s = Listener => nextSock + 1 <= 2 * MaxAccepts }

\* while not done: events = sel.select()
Select ==
    /\ pc = "loop"
    /\ ~done
    /\ \E batch \in (SUBSET Ready) \ {{}} :
          events' = { <<s, sel[s]>> : s \in batch }
    /\ pc' = "dispatch"
    /\ UNCHANGED now
    /\ UNCHANGED <<map, sel, closed, policy, updates, done, err, nextSock,
                   eof, sessions, selections, calls, last>>

\* the while test fails: main returns
Exit ==
    /\ pc = "loop"
    /\ done
    /\ pc' = "exited"
    /\ UNCHANGED now
    /\ UNCHANGED <<map, sel, closed, policy, updates, done, events, err,
                   nextSock, eof, sessions, selections, calls, last>>

\* a loop that would log a handler's exception and go on with the batch
AfterHandler_continue(key, exc) ==
    /\ events' = events \ {key}
    /\ err' = exc
    /\ pc' = IF events' = {} THEN "loop" ELSE "dispatch"

\* after callback(key.fileobj, mask): the for loop goes on, or the while
\* test is next, or the exception reached main's except clause
AfterHandler(key, exc) ==
    /\ events' = events \ {key}
    /\ err' = exc
    /\ pc' = IF exc # "none" THEN "exited"
             ELSE IF events' = {} THEN "loop" ELSE "dispatch"

\* the sessions log after an add that recorded a pairing
Record(w, r, client, upstream_sock, server) ==
    IF r.world.map # w.map
    THEN Append(sessions, [client |-> client, upstream |-> upstream_sock,
                           server |-> server])
    ELSE sessions

\* callback = accept
AcceptEvent ==
    /\ pc = "dispatch"
    /\ \E key \in events, connect_ok \in BOOLEAN :
          /\ key[2] = "accept"
          /\ LET client == nextSock
                 up     == nextSock + 1
                 r      == accept(World, client, up, connect_ok)
             IN  /\ SetWorld(r.world)
                 /\ AfterHandler(key, r.exc)
                 /\ sessions' = Record(World, r, client, up, r.server)
                 /\ selections' = Append(selections, r.server)
                 /\ last' = [op |-> "accept", sock |-> client,
                             arg |-> r.server, exc |-> r.exc, to |-> up,
                             side |-> "none", peer |-> None, sent |-> None]
    /\ nextSock' = nextSock + 2
    /\ UNCHANGED now
    /\ UNCHANGED <<done, eof, calls>>

\* callback = read
ReadEvent ==
    /\ pc = "dispatch"
    /\ \E key \in events :
          /\ key[2] = "read"
          /\ \E data \in (IF key[1] \in eof THEN {Empty}
                          ELSE Chunks \cup {Empty}) :
             \E send \in (IF data # Empty /\ get_sock(map, key[1]) # None
                          THEN {"all", "part", "raise"} ELSE {"all"}) :
                LET r == read(World, key[1], data, send)
                IN  /\ SetWorld(r.world)
                    /\ AfterHandler(key, r.exc)
                    /\ eof' = IF data = Empty THEN eof \cup {key[1]} ELSE eof
                    /\ last' = [op |-> "read", sock |-> key[1], arg |-> data,
                                exc |-> r.exc, to |-> r.to, sent |-> r.sent,
                                side |-> SideOf(map, key[1]),
                                peer |-> get_sock(map, key[1])]
    /\ UNCHANGED now
    /\ UNCHANGED <<done, nextSock, sessions, selections, calls>>

Next ==
    \/ Signal
    \/ Select
    \/ Exit
    \/ AcceptEvent
    \/ ReadEvent

Spec == Init /\ [][Next]_vars

\* ----------------------------------------- the loop with another policy wired
\* main with line 189 reading policy = LeastConnections(servers)
InitLC == \E servers \in Pools : InitWith(LeastConnections(servers), "loop")

SpecLC == InitLC /\ [][Next]_vars

\* ------------------------------------------------- SocketMapper, called directly
\* any sequence of add and delete calls on a SocketMapper over any policy
Policies ==
    UNION { {N2One(servers), RoundRobin(servers), LeastConnections(servers)} :
            servers \in Pools }

InitMapper == \E p \in Policies : InitWith(p, "harness")

\* socket objects that exist, and the one the next accept would return
Sockets == 0..(nextSock - 1)

\* mapper.add(client_sock, upstream_server)
MapperAdd ==
    /\ pc = "harness"
    /\ calls < MaxCalls
    /\ nextSock + 1 <= 2 * MaxAccepts
    /\ \E client \in Sockets \cup {nextSock}, k \in 1..Len(policy.servers),
          connect_ok \in BOOLEAN :
          LET server == policy.servers[k]
              up     == nextSock + 1
              r      == add(World, client, server, up, connect_ok)
          IN  /\ SetWorld(r.world)
              /\ sessions' = Record(World, r, client, up, server)
              /\ last' = [op |-> "add", sock |-> client, arg |-> server,
                          exc |-> r.exc, to |-> up,
                          side |-> SideOf(map, client),
                          peer |-> get_sock(map, client), sent |-> None]
    /\ nextSock' = nextSock + 2
    /\ calls' = calls + 1
    /\ UNCHANGED now
    /\ UNCHANGED <<done, pc, events, err, eof, selections>>

\* mapper.delete(sock)
MapperDelete ==
    /\ pc = "harness"
    /\ calls < MaxCalls
    /\ \E sock \in Sockets \cup {nextSock} :
          LET r == delete(World, sock)
          IN  /\ SetWorld(r.world)
              /\ last' = [op |-> "delete", sock |-> sock, arg |-> None,
                          exc |-> r.exc, to |-> None,
                          side |-> SideOf(map, sock),
                          peer |-> get_sock(map, sock), sent |-> None]
    /\ calls' = calls + 1
    /\ UNCHANGED now
    /\ UNCHANGED <<done, pc, events, err, nextSock, eof, sessions, selections>>

NextMapper == MapperAdd \/ MapperDelete

SpecMapper == InitMapper /\ [][NextMapper]_vars

\* ------------------------------------------------------ a policy, called directly
InitPolicy == \E p \in Policies : InitWith(p, "harness")

\* policy.select_server()
PolicySelect ==
    /\ pc = "harness"
    /\ calls < MaxCalls
    /\ LET s == select_server(policy)
       IN  /\ policy' = s.policy
           /\ selections' = Append(selections, s.server)
           /\ last' = [op |-> "select_server", sock |-> None, arg |-> None,
                       exc |-> "none", to |-> s.server, side |-> "none",
                       peer |-> None, sent |-> None]
    /\ calls' = calls + 1
    /\ UNCHANGED now
    /\ UNCHANGED <<map, sel, closed, updates, done, pc, events, err, nextSock,
                   eof, sessions>>

\* policy.update(add, server, client_sock)
PolicyUpdate ==
    /\ pc = "harness"
    /\ calls < MaxCalls
    /\ \E a \in BOOLEAN, server \in ServerIds, client \in 1..MaxAccepts :
          LET u == update(policy, a, server, client)
          IN  /\ policy' = u.policy
              /\ last' = [op |-> "update", sock |-> client, arg |-> server,
                          exc |-> u.exc, to |-> IF a THEN 1 ELSE 0,
                          side |-> "none", peer |-> None, sent |-> None]
    /\ calls' = calls + 1
    /\ UNCHANGED now
    /\ UNCHANGED <<map, sel, closed, updates, done, pc, events, err,
                   nextSock, eof, sessions, selections>>

NextPolicy == PolicySelect \/ PolicyUpdate

SpecPolicy == InitPolicy /\ [][NextPolicy]_vars

\* ------------------------------------------------------------------ claims
Registered(s) == s \in DOMAIN sel

\* the pairing <<c, u>> is recorded in the connection table
Recorded(m, c, u) == \E i \in 1..Len(m) : m[i] = <<c, u>>

Endpoints(m) == { m[i][1] : i \in 1..Len(m) } \cup { m[i][2] : i \in 1..Len(m) }

\* the session a client socket belonged to when last paired
ServerOf(c) ==
    LET i == CHOOSE j \in 1..Len(sessions) :
                 /\ sessions[j].client = c
                 /\ \A k \in (j + 1)..Len(sessions) : sessions[k].client # c
    IN  sessions[i].server

\* C1: a pairing is recorded in the table iff both its sockets are
\* registered; no socket but the listening one is registered without being
\* an endpoint of a recorded pairing, and no recorded endpoint is
\* unregistered.
C1_PairedIffRegistered ==
    /\ \A i \in 1..Len(sessions) :
          Recorded(map, sessions[i].client, sessions[i].upstream)
             <=> (Registered(sessions[i].client)
                    /\ Registered(sessions[i].upstream))
    /\ \A s \in (DOMAIN sel) \ {Listener} : s \in Endpoints(map)
    /\ \A s \in Endpoints(map) : Registered(s)

\* C2: every endpoint x of a recorded pairing has a peer, and the peer of
\* its peer is x; right after a successful add(client, server), the peer of
\* client is the new upstream socket and the peer of that socket is client.
C2_PeerSymmetric ==
    /\ \A x \in Endpoints(map) :
          /\ get_sock(map, x) # None
          /\ get_sock(map, get_sock(map, x)) = x
    /\ (last.op = "add" /\ last.exc = "none") =>
          /\ get_sock(map, last.sock) = last.to
          /\ get_sock(map, last.to) = last.sock

\* a second pairing was just added next to an earlier one, after a delete
\* removed a third
C2_Witness ==
    /\ last.op = "add"
    /\ last.exc = "none"
    /\ Len(map) >= 2
    /\ get_sock(map, last.sock) = last.to

\* C3: once the read handler got zero bytes from the client socket of a
\* live session and the batch is over, the pairing is gone from the table,
\* both sockets are unregistered, policy.update(0, server, client) was
\* called and both sockets are closed.
C3_ClientCloseTearsDown ==
    (pc # "dispatch" /\ last.op = "read" /\ last.arg = Empty
        /\ last.side = "client")
    => /\ ~Recorded(map, last.sock, last.peer)
       /\ ~Registered(last.sock)
       /\ ~Registered(last.peer)
       /\ \E i \in 1..Len(updates) :
             updates[i] = <<0, ServerOf(last.sock), last.sock>>
       /\ last.sock \in closed
       /\ last.peer \in closed

\* C4: once the read handler got zero bytes from the upstream socket of a
\* live session, the pairing is gone from the table and both its sockets
\* are unregistered.
C4_UpstreamCloseTearsDown ==
    (last.op = "read" /\ last.arg = Empty /\ last.side = "upstream")
    => /\ ~Recorded(map, last.peer, last.sock)
       /\ ~Registered(last.sock)
       /\ ~Registered(last.peer)

\* a step of the dispatch loop that ran the read handler on a zero-byte read
\* of a socket of a live session
ZeroReadStep ==
    /\ pc = "dispatch"
    /\ events' # events
    /\ last'.op = "read"
    /\ last'.arg = Empty
    /\ last'.side # "none"

\* C5: the handling of a zero-byte read of one session leaves the loop
\* running, reaches main's except clause with no exception, and leaves
\* every other session recorded with both sockets registered.
C5_CloseContained ==
    [][ZeroReadStep =>
          /\ pc' # "exited"
          /\ err' = "none"
          /\ \A i \in 1..Len(map) :
                (map[i][1] # last'.sock /\ map[i][2] # last'.sock)
                => /\ Recorded(map', map[i][1], map[i][2])
                   /\ map[i][1] \in DOMAIN sel'
                   /\ map[i][2] \in DOMAIN sel']_vars

\* the sessions routed to server s whose pairing is still recorded
OpenSessions(s) ==
    { i \in 1..Len(sessions) :
         /\ sessions[i].server = s
         /\ Recorded(map, sessions[i].client, sessions[i].upstream) }

\* C6: with LeastConnections wired, connections[s] is the number of open
\* sessions routed to s, for every server s.
C6_CountIsOpenSessions ==
    policy.kind = "LeastConnections" =>
       \A k \in 1..Len(policy.servers) :
          DictGet(policy.connections, policy.servers[k])
             = Cardinality(OpenSessions(policy.servers[k]))

\* C7: after delete(e), e being either endpoint of a recorded pairing,
\* get_sock is None for both sockets of that pairing.
C7_DeleteUnpairsBoth ==
    (last.op = "delete" /\ last.side # "none")
    => /\ get_sock(map, last.sock) = None
       /\ get_sock(map, last.peer) = None

\* C8: delete(e) on an endpoint that is in no recorded pairing raises
\* nothing and changes neither the table, the registrations, the policy
\* statistics nor any socket's open/closed status; and a delete(e) that
\* directly follows a delete(e) changes nothing and raises nothing.
C8_DeleteIdempotent ==
    [][(calls' # calls /\ last'.op = "delete")
          => /\ (last'.side = "none"
                    \/ (last.op = "delete" /\ last.sock = last'.sock))
                => /\ last'.exc = "none"
                   /\ UNCHANGED <<map, sel, policy, closed, updates>>]_vars

\* delete(c) was just called again on the client of a removed session
C8_Witness ==
    /\ last.op = "delete"
    /\ last.side = "none"
    /\ last.exc = "none"
    /\ \E i \in 1..Len(sessions) :
          /\ sessions[i].client = last.sock
          /\ ~Recorded(map, last.sock, sessions[i].upstream)

\* index of the first occurrence of server s in the pool
FirstIdx(servers, s) == CHOOSE k \in 1..Len(servers) :
    servers[k] = s /\ \A j \in 1..(k - 1) : servers[j] # s

\* C9: LeastConnections.select_server returns a server whose count is the
\* minimum over all servers, the first such server in pool order.
C9_SelectsFirstMinimum ==
    (last.op = "select_server" /\ policy.kind = "LeastConnections")
    => LET d == policy.connections
           s == last.to
       IN  /\ DictHas(d, s)
           /\ \A i \in 1..Len(d) : d[i][2] >= DictGet(d, s)
           /\ \A k \in 1..Len(policy.servers) :
                 DictGet(d, policy.servers[k]) = DictGet(d, s)
                 => FirstIdx(policy.servers, s) <= k

\* select_server just chose among two servers tied at a non-zero count
C9_Witness ==
    /\ last.op = "select_server"
    /\ policy.kind = "LeastConnections"
    /\ \E k \in 1..Len(policy.servers) :
          /\ policy.servers[k] # last.to
          /\ DictGet(policy.connections, policy.servers[k])
                = DictGet(policy.connections, last.to)
          /\ DictGet(policy.connections, last.to) # 0

Injective(f) == \A i, j \in DOMAIN f : f[i] = f[j] => i = j

\* C10: RoundRobin over N distinct servers: every N consecutive
\* select_server calls, update calls interleaved or not, return each server
\* of the pool exactly once.
C10_WindowCoversPool ==
    (policy.kind = "RoundRobin" /\ Injective(policy.servers))
    => LET N == Len(policy.servers)
       IN  \A k \in 1..(Len(selections) - N + 1) :
              { selections[k + j] : j \in 0..(N - 1) }
                 = { policy.servers[i] : i \in 1..N }

\* three selections over two distinct servers, an update call among the calls
C10_Witness ==
    /\ policy.kind = "RoundRobin"
    /\ Injective(policy.servers)
    /\ Len(policy.servers) >= 2
    /\ Len(selections) > Len(policy.servers)
    /\ last.op = "update"

\* ------------------------------- round-robin wired, clients connecting in turn
\* main with line 189 reading policy = RoundRobin(servers)
InitRR == \E servers \in Pools : InitWith(RoundRobin(servers), "loop")

\* select reports the listening socket alone: one more client has connected
\* and no session socket has traffic
SelectListener ==
    /\ pc = "loop"
    /\ ~done
    /\ nextSock + 1 <= 2 * MaxCalls
    /\ events' = { <<Listener, sel[Listener]>> }
    /\ pc' = "dispatch"
    /\ UNCHANGED now
    /\ UNCHANGED <<map, sel, closed, policy, updates, done, err, nextSock,
                   eof, sessions, selections, calls, last>>

NextRR ==
    \/ Signal
    \/ SelectListener
    \/ Exit
    \/ AcceptEvent

SpecRR == InitRR /\ [][NextRR]_vars

\* C11: with round-robin wired, the k-th accepted connection (k from 0) is
\* routed to servers[k mod N]; for the pool [S1, S2] three connections in
\* turn go to S1, S2, S1.
C11_RoundRobinRouting ==
    policy.kind = "RoundRobin" =>
       /\ \A k \in 1..Len(selections) :
             selections[k]
                = policy.servers[((k - 1) % Len(policy.servers)) + 1]
       /\ \A k \in 1..Len(sessions) :
             /\ sessions[k].server = selections[k]
             /\ <<1, selections[k], sessions[k].client>> = updates[k]

\* three connections were accepted in turn over the pool [1, 2] and routed
\* to 1, 2, 1
C11_Witness ==
    /\ policy.kind = "RoundRobin"
    /\ policy.servers = <<1, 2>>
    /\ Len(sessions) = 3
    /\ <<sessions[1].server, sessions[2].server, sessions[3].server>>
          = <<1, 2, 1>>
    /\ last.op = "accept"

\* C12: least-connections over the pool [S1, S2]: the first two clients,
\* both connected, are routed to S1 then S2; once the read handler has
\* handled the zero-byte read of the S1 session's client, the loop still
\* accepts, and a third client is routed to S1.
C12_LeastConnectionsScenario ==
    (policy.kind = "LeastConnections" /\ policy.servers = <<1, 2>>) =>
       /\ Len(sessions) >= 1 => sessions[1].server = 1
       /\ Len(sessions) >= 2 => sessions[2].server = 2
       /\ (/\ Len(sessions) = 2
           /\ last.op = "read"
           /\ last.arg = Empty
           /\ last.side = "client"
           /\ last.sock = sessions[1].client)
          => /\ err = "none"
             /\ pc = "exited" => done
             /\ select_server(policy).server = 1

\* --------------------------------------- LeastResponseTime, called directly
InitLRT == \E servers \in Pools : InitWith(LeastResponseTime(servers), "harness")

\* time passes
Tick ==
    /\ pc = "harness"
    /\ now < MaxTime
    /\ now' = now + 1
    /\ UNCHANGED <<map, sel, closed, policy, updates, done, pc, events, err,
                   nextSock, eof, sessions, selections, calls, last>>

\* policy.select_server()
LRTSelect ==
    /\ pc = "harness"
    /\ calls < MaxCalls
    /\ LET s == LeastResponseTime_select_server(policy)
       IN  /\ policy' = s.policy
           /\ last' = [op |-> "select_server", sock |-> None, arg |-> None,
                       exc |-> "none", to |-> s.server, side |-> "none",
                       peer |-> None, sent |-> None]
    /\ calls' = calls + 1
    /\ UNCHANGED <<map, sel, closed, updates, done, pc, events, err, nextSock,
                   eof, sessions, selections, now>>

\* policy.update(add, server, client_sock); updates logs the call and its time
LRTUpdate ==
    /\ pc = "harness"
    /\ calls < MaxCalls
    /\ \E a \in BOOLEAN, k \in 1..Len(policy.servers), client \in 1..MaxAccepts :
          LET server == policy.servers[k]
              u      == LeastResponseTime_update(policy, a, server, client, now)
          IN  /\ policy' = u.policy
              /\ updates' = Append(updates, <<IF a THEN 1 ELSE 0, server,
                                              client, now>>)
              /\ last' = [op |-> "update", sock |-> client, arg |-> server,
                          exc |-> u.exc, to |-> IF a THEN 1 ELSE 0,
                          side |-> "none", peer |-> None, sent |-> None]
    /\ calls' = calls + 1
    /\ UNCHANGED <<map, sel, closed, done, pc, events, err, nextSock, eof,
                   sessions, selections, now>>

NextLRT == Tick \/ LRTSelect \/ LRTUpdate

SpecLRT == InitLRT /\ [][NextLRT]_vars

\* the update(add=true) call that the call logged at i completes: the latest
\* earlier call with the same server and client, if it is an add (0 if none)
StartOf(i) ==
    LET same == { j \in 1..(i - 1) : /\ updates[j][2] = updates[i][2]
                                     /\ updates[j][3] = updates[i][3] }
    IN  IF same = {} THEN 0
        ELSE LET j == CHOOSE x \in same : \A y \in same : y <= x
             IN  IF updates[j][1] = 1 THEN j ELSE 0

\* the completing update calls received for server s
Completed(s) ==
    { i \in 1..Len(updates) :
         updates[i][1] = 0 /\ updates[i][2] = s /\ StartOf(i) # 0 }

RECURSIVE SumDurations(_)
SumDurations(I) ==
    IF I = {} THEN 0
    ELSE LET i == CHOOSE x \in I : TRUE
         IN  (updates[i][4] - updates[StartOf(i)][4]) + SumDurations(I \ {i})

\* C13: a completing update raises nothing, and for every server s with a
\* completed session response_times[s] is the mean of end - start over the
\* sessions of s that received the completing update.
C13_AverageOfCompleted ==
    policy.kind = "LeastResponseTime" =>
       /\ (last.op = "update" /\ last.to = 0
              /\ StartOf(Len(updates)) # 0) => last.exc = "none"
       /\ \A k \in 1..Len(policy.servers) :
             LET s  == policy.servers[k]
                 rt == DictGet(policy.response_times, s)
             IN  Completed(s) # {} =>
                    rt[1] * Cardinality(Completed(s))
                       = SumDurations(Completed(s)) * rt[2]

\* a step of the dispatch loop that ran the accept handler and whose connect
\* to the chosen server failed
ConnectFailedStep ==
    /\ pc = "dispatch"
    /\ events' # events
    /\ last'.op = "accept"
    /\ last'.exc = "ConnectionRefusedError"

\* C14: a failed connect inside the accept handler is reported and touches
\* that attempted session only: the loop keeps running, and the listening
\* socket and every existing session stay recorded and registered.
C14_ConnectFailureContained ==
    [][ConnectFailedStep =>
          /\ err' = "ConnectionRefusedError"
          /\ pc' \in {"loop", "dispatch"}
          /\ map' = map
          /\ \A s \in DOMAIN sel : s \in DOMAIN sel']_vars

\* a step of the dispatch loop that ran the read handler on a non-empty chunk
\* read from a socket of a live session
RelayStep ==
    /\ pc = "dispatch"
    /\ events' # events
    /\ last'.op = "read"
    /\ last'.arg # Empty
    /\ last'.side # "none"

\* C16: every non-empty chunk read from an endpoint of a live session is
\* sent whole and unmodified, within the same handler invocation (hence in
\* the order read), to the paired endpoint of that session and to no other
\* socket.
C16_RelayVerbatim ==
    [][RelayStep =>
          /\ last'.to = get_sock(map, last'.sock)
          /\ \E i \in 1..Len(sessions) :
                {sessions[i].client, sessions[i].upstream}
                   = {last'.sock, last'.to}
          /\ last'.sent = last'.arg]_vars

\* C15: the shutdown flag is looked at between batches only: with done set
\* during a batch, every step still invokes the handler of one remaining
\* event until none remains, and main then returns without another select
\* and without dispatching anything more.
C15_ShutdownBetweenBatches ==
    [][/\ (done /\ pc = "dispatch") =>
             /\ \E key \in events : events' = events \ {key}
             /\ last'.op \in {"accept", "read"}
             /\ events' # {} => pc' = "dispatch"
             /\ events' = {} => pc' \in {"loop", "exited"}
       /\ (done /\ pc = "loop") =>
             /\ pc' = "exited"
             /\ UNCHANGED <<map, sel, closed, policy, updates, events, last>>
       /\ pc = "exited" => UNCHANGED vars]_vars

(* C17: LeastConnections: after any sequence of update calls,             *)
(* connections[s] >= 0 for every server s.                                *)
C17_CountsNonNegative ==
    policy.kind = "LeastConnections" =>
        \A i \in 1..Len(policy.connections) : policy.connections[i][2] >= 0

(* C18: any exception a handler raises in the dispatch loop ends the loop *)
(* at once: main's except clause receives it, the remaining ready events  *)
(* of the batch are left undispatched, select is not called again and     *)
(* nothing happens after main has returned.                               *)
C18_HandlerExceptionEndsLoop ==
    [][/\ (pc = "dispatch" /\ events' # events /\ last'.exc # "none") =>
             /\ pc' = "exited"
             /\ err' = last'.exc
       /\ pc = "exited" => UNCHANGED vars]_vars

C18_Witness ==
    /\ pc = "exited"
    /\ err # "none"
    /\ last.exc = err
    /\ events # {}

(* C19: while the loop runs, every socket registered with the read        *)
(* callback, and every socket of a pending read event, has a peer in the  *)
(* connection table; a read that received a non-empty chunk found its     *)
(* peer.                                                                  *)
C19_ReadSocketsHavePeer ==
    /\ pc \in {"loop", "dispatch"} =>
          /\ \A s \in DOMAIN sel :
                sel[s] = "read" => get_sock(map, s) # None
          /\ \A key \in events :
                key[2] = "read" => get_sock(map, key[1]) # None
    /\ (last.op = "read" /\ last.arg # Empty) => last.peer # None

C19_Witness ==
    /\ pc \in {"loop", "dispatch"}
    /\ last.op = "read"
    /\ last.arg # Empty
    /\ last.side = "upstream"
    /\ last.peer # None
    /\ eof # {}

(* C20: as main wires it, the policy is the fixed-target one and stays as *)
(* constructed (update changes nothing), and every accepted connection is *)
(* routed to servers[0], whatever sessions were opened or closed before.  *)
C20_FixedTargetWired ==
    [][/\ policy = N2One(policy.servers)
       /\ policy' = policy
       /\ selections' # selections =>
             /\ last'.op = "accept"
             /\ selections'[Len(selections')] = policy.servers[1]
       /\ sessions' # sessions =>
             sessions'[Len(sessions')].server = policy.servers[1]]_vars

C20_Witness ==
    /\ Len(policy.servers) = 2
    /\ policy.servers[1] # policy.servers[2]
    /\ eof # {}
    /\ Len(updates) = 2
    /\ Len(sessions) = 2
    /\ last.op = "accept"
    /\ last.exc = "none"
    /\ last.arg = policy.servers[1]

====
